---- MODULE Spec2Model ----
(***************************************************************************)
(* Model of emailconfirmation/models.py: the EmailAddress and              *)
(* EmailConfirmation tables, their managers and the auth User rows that    *)
(* set_as_primary writes.                                                  *)
(*                                                                         *)
(* Spec     : every manager/model method runs to completion (one action    *)
(*            per call).                                                   *)
(* SpecConc : two request threads run set_as_primary / confirm_email one   *)
(*            ORM query at a time (each get() and each save() is a step).  *)
(***************************************************************************)
EXTENDS Integers, Sequences, FiniteSets, TLC

\* ---- bounds -------------------------------------------------------------
MaxAddresses == 2          \* rows in the EmailAddress table
MaxKeys == 2               \* confirmations ever created
MaxTime == 2               \* last clock value (days)
\* value of settings.EMAIL_CONFIRMATION_DAYS of the deployment (the code
\* falls back to 7 when the setting is absent)
EMAIL_CONFIRMATION_DAYS == 1

Users == {1, 2}                       \* auth User primary keys
\* the (user, email) arguments add_email is called with
AddressPairs == <<<<1, "a@x.com">>, <<1, "b@x.com">>, <<2, "a@x.com">>>>
\* the workloads: one user registering two addresses, or two users registering
\* the same email string (sets of indices of AddressPairs)
Workloads == {{1, 2}, {1, 3}}
Procs == {"p1", "p2"}                 \* request threads of SpecConc
NoEmail == ""                         \* User.email of a fresh account

VARIABLES
    addresses,            \* EmailAddress table: row id -> row
    confirmations,        \* EmailConfirmation table: set of rows
    users,                \* auth User table: user id -> [email, username]
    now,                  \* the clock read by now()
    nextKey,              \* number of keys generate_key has produced so far
    OVERWRITE_USERNAME,   \* settings.EMAIL_CONFIRMATION_OVERWRITE_USERNAME
    workload,             \* the pairs add_email is called with in this run
    call,                 \* the last completed call: operation, arguments, outcome
    effects,              \* writes, mails and signals of the last completed call, in order
    pc,                   \* SpecConc: position of each thread in its call
    local                 \* SpecConc: in-memory objects of each thread

vars == <<addresses, confirmations, users, now, nextKey, OVERWRITE_USERNAME,
          workload, call, effects, pc, local>>

\* ---- values -------------------------------------------------------------
\* Python None for an EmailAddress / EmailConfirmation object
NoAddress == [id |-> 0, user |-> 0, email |-> NoEmail, verified |-> FALSE, primary |-> FALSE]
NoConfirmation == [key |-> 0, email_address |-> 0, created_at |-> 0]
Username(u) == IF u = 1 THEN "user1" ELSE "user2"

Eff(kind, n) == [kind |-> kind, id |-> n]

NoCall == [op |-> "", user |-> 0, email |-> NoEmail, id |-> 0, key |-> 0,
           make_primary |-> FALSE, ret |-> "", ret_id |-> 0, ret_users |-> <<>>,
           raised |-> "", mail |-> "", again |-> FALSE]

\* the frame of a thread that has not made a call yet
NoUser == [email |-> NoEmail, username |-> ""]
NoLocal == [op |-> "", id |-> 0, key |-> 0, make_primary |-> FALSE,
            confirmation |-> NoConfirmation, self |-> NoAddress, old |-> NoAddress,
            user |-> NoUser, todo |-> {}, ret |-> "", ret_id |-> 0, raised |-> ""]

\* ---- ORM helpers --------------------------------------------------------
\* the in-memory instance of row i
Load(addrs, i) ==
    [id |-> i, user |-> addrs[i].user, email |-> addrs[i].email,
     verified |-> addrs[i].verified, primary |-> addrs[i].primary]

\* Model.save() of an existing EmailAddress instance: UPDATE of every column
save(addrs, obj) ==
    [addrs EXCEPT ![obj.id] = [user |-> obj.user, email |-> obj.email,
                               verified |-> obj.verified, primary |-> obj.primary]]

\* mutant: the table has no unique_together constraint
UniqueViolation_off(addrs, user, email) == FALSE

\* unique_together (user, email): would inserting this pair violate it?
UniqueViolation(addrs, user, email) ==
    \E i \in DOMAIN addrs : addrs[i].user = user /\ addrs[i].email = email

\* the primary key the database gives a new row: an id no row has. Ids are
\* opaque, so the model derives it from the pair and the number of rows that
\* already hold the pair instead of from the insertion order.
NewId(addrs, user, email) ==
    LET p == CHOOSE i \in DOMAIN AddressPairs : AddressPairs[i] = <<user, email>>
        n == Cardinality({i \in DOMAIN addrs : addrs[i].user = user /\ addrs[i].email = email})
    IN p + Len(AddressPairs) * n

\* the table with one more row
Insert(addrs, id, row) ==
    [i \in DOMAIN addrs \cup {id} |-> IF i = id THEN row ELSE addrs[i]]

\* EmailAddressManager.create(user=, email=): INSERT with the field defaults
create_address(addrs, user, email) ==
    IF UniqueViolation(addrs, user, email)
    THEN [raised |-> "IntegrityError", addresses |-> addrs, obj |-> NoAddress]
    ELSE LET row == [user |-> user, email |-> email, verified |-> FALSE, primary |-> FALSE]
             id == NewId(addrs, user, email)
             new == Insert(addrs, id, row)
         IN [raised |-> "", addresses |-> new, obj |-> Load(new, id)]

\* EmailAddressManager.get_primary
get_primary(addrs, user) ==
    LET ids == {i \in DOMAIN addrs : addrs[i].user = user /\ addrs[i].primary}
    IN IF ids = {} THEN [raised |-> "", obj |-> NoAddress]
       ELSE IF Cardinality(ids) = 1
            THEN [raised |-> "", obj |-> Load(addrs, CHOOSE i \in ids : TRUE)]
            ELSE [raised |-> "MultipleObjectsReturned", obj |-> NoAddress]

\* mutant: the username follows the e-mail whatever the setting says
user_row_always(usr, self, overwrite) ==
    [email |-> self.email, username |-> self.email]

\* line 66-69: the profile row written by self.user.save()
user_row(usr, self, overwrite) ==
    [email |-> self.email,
     username |-> IF overwrite THEN self.email ELSE usr.username]

\* the owners of the rows ids, in the order of the row ids
RECURSIVE users_of(_, _)
users_of(addrs, ids) ==
    IF ids = {} THEN <<>>
    ELSE LET i == CHOOSE i \in ids : \A j \in ids : i <= j
         IN <<addrs[i].user>> \o users_of(addrs, ids \ {i})

\* mutant: the filter on verified is missing
get_users_for_any(addrs, email) ==
    users_of(addrs, {i \in DOMAIN addrs : addrs[i].email = email})

\* EmailAddressManager.get_users_for(email): the list of address.user over
\* filter(verified=True, email=email)
get_users_for(addrs, email) ==
    users_of(addrs, {i \in DOMAIN addrs : addrs[i].verified /\ addrs[i].email = email})

\* mutant: the old primary keeps its flag
demote_old_skip(addrs, old) == addrs

\* mutant: the old primary is saved with both flags cleared
demote_old_reset(addrs, old) ==
    IF old.id # 0 THEN save(addrs, [old EXCEPT !.primary = FALSE, !.verified = FALSE])
    ELSE addrs

\* lines 61-63: the old primary, when there is one, is cleared and saved
demote_old(addrs, old) ==
    IF old.id # 0 THEN save(addrs, [old EXCEPT !.primary = FALSE]) ELSE addrs

\* line 64
mark_primary(self) == [self EXCEPT !.primary = TRUE]

\* mutant: self is saved as primary before the old primary is cleared
set_as_primary_swapped(addrs, usrs, self, overwrite) ==
    LET old == get_primary(addrs, self.user)
    IN IF old.raised # ""
       THEN [raised |-> old.raised, addresses |-> addrs, users |-> usrs,
             self |-> self, effects |-> <<>>]
       ELSE LET self1 == mark_primary(self)
                a1 == save(addrs, self1)
                a2 == demote_old(a1, old.obj)
                e2 == IF old.obj.id # 0 THEN <<Eff("save_address", old.obj.id)>> ELSE <<>>
                u2 == [usrs EXCEPT ![self.user] = user_row(usrs[self.user], self1, overwrite)]
            IN [raised |-> "", addresses |-> a2, users |-> u2, self |-> self1,
                effects |-> <<Eff("save_address", self.id)>> \o e2
                            \o <<Eff("save_user", self.user)>>]

\* EmailAddress.set_as_primary as one uninterrupted call on instance `self`
set_as_primary(addrs, usrs, self, overwrite) ==
    LET old == get_primary(addrs, self.user)
    IN IF old.raised # ""
       THEN [raised |-> old.raised, addresses |-> addrs, users |-> usrs,
             self |-> self, effects |-> <<>>]
       ELSE LET a1 == demote_old(addrs, old.obj)
                e1 == IF old.obj.id # 0 THEN <<Eff("save_address", old.obj.id)>> ELSE <<>>
                self1 == mark_primary(self)
                a2 == save(a1, self1)
                u2 == [usrs EXCEPT ![self.user] = user_row(usrs[self.user], self1, overwrite)]
            IN [raised |-> "", addresses |-> a2, users |-> u2, self |-> self1,
                effects |-> e1 \o <<Eff("save_address", self.id), Eff("save_user", self.user)>>]

\* mutant: a key whose age equals the window is still accepted
key_expired_strict(c, t) == c.created_at + EMAIL_CONFIRMATION_DAYS < t

\* EmailConfirmation.key_expired at clock value t
key_expired(c, t) == c.created_at + EMAIL_CONFIRMATION_DAYS <= t

\* EmailConfirmationManager.generate_key: a SHA-1 digest over the time, the
\* email and a random salt; modelled as a key no earlier call has produced
\* (n keys were produced so far)
generate_key(n) == n + 1

\* EmailConfirmationManager.create_emailconfirmation
create_emailconfirmation(confs, email_address, n, t) ==
    LET c == [key |-> generate_key(n), email_address |-> email_address.id, created_at |-> t]
    IN [confirmations |-> confs \cup {c}, obj |-> c]

\* the attributes of EmailConfirmationManager (the methods the class defines)
ManagerAttrs == {"generate_key", "create_emailconfirmation", "confirm_email",
                 "send_confirmation", "delete_expired_confirmations"}

\* EmailConfirmationManager.send_confirmation; mailOk: send_mail does not raise
send_confirmation(confs, email_address, n, t, mailOk) ==
    IF "create_email_confirmation" \notin ManagerAttrs
    THEN [raised |-> "AttributeError", confirmations |-> confs, obj |-> NoConfirmation,
          effects |-> <<>>]
    ELSE LET r == create_emailconfirmation(confs, email_address, n, t)
             e1 == <<Eff("create_confirmation", r.obj.key)>>
         IN IF ~mailOk
            THEN [raised |-> "MailError", confirmations |-> r.confirmations,
                  obj |-> NoConfirmation, effects |-> e1]
            ELSE [raised |-> "", confirmations |-> r.confirmations, obj |-> r.obj,
                  effects |-> e1 \o <<Eff("send_mail", r.obj.key),
                                      Eff("email_confirmation_sent", r.obj.key)>>]

\* EmailAddressManager.add_email
add_email(addrs, confs, user, email, n, t, mailOk) ==
    LET cr == create_address(addrs, user, email)
    IN IF cr.raised = "IntegrityError"
       THEN [raised |-> "", ret |-> "None", ret_id |-> 0, addresses |-> addrs,
             confirmations |-> confs, effects |-> <<>>]
       ELSE LET e0 == <<Eff("create_address", cr.obj.id)>>
                sc == send_confirmation(confs, cr.obj, n, t, mailOk)
            IN IF sc.raised = "IntegrityError"
               THEN [raised |-> "", ret |-> "None", ret_id |-> 0, addresses |-> cr.addresses,
                     confirmations |-> sc.confirmations, effects |-> e0 \o sc.effects]
               ELSE IF sc.raised # ""
               THEN [raised |-> sc.raised, ret |-> "", ret_id |-> 0, addresses |-> cr.addresses,
                     confirmations |-> sc.confirmations, effects |-> e0 \o sc.effects]
               ELSE [raised |-> "", ret |-> "address", ret_id |-> cr.obj.id,
                     addresses |-> cr.addresses, confirmations |-> sc.confirmations,
                     effects |-> e0 \o sc.effects]

\* mutant: issuing a newer key for an address invalidates the older ones
lookup_latest(confs, key) ==
    LET found == {c \in confs : /\ c.key = key
                                /\ \A d \in confs : d.email_address = c.email_address
                                                        => d.key <= c.key}
    IN IF found = {} THEN [raised |-> "", found |-> FALSE, obj |-> NoConfirmation]
       ELSE IF Cardinality(found) > 1
            THEN [raised |-> "MultipleObjectsReturned", found |-> FALSE, obj |-> NoConfirmation]
            ELSE [raised |-> "", found |-> TRUE, obj |-> CHOOSE c \in found : TRUE]

\* mutant: DoesNotExist is not caught
lookup_uncaught(confs, key) ==
    LET found == {c \in confs : c.key = key}
    IN IF found = {} THEN [raised |-> "DoesNotExist", found |-> FALSE, obj |-> NoConfirmation]
       ELSE IF Cardinality(found) > 1
            THEN [raised |-> "MultipleObjectsReturned", found |-> FALSE, obj |-> NoConfirmation]
            ELSE [raised |-> "", found |-> TRUE, obj |-> CHOOSE c \in found : TRUE]

\* lines 112-115: self.get(key=key), DoesNotExist caught
lookup(confs, key) ==
    LET found == {c \in confs : c.key = key}
    IN IF found = {} THEN [raised |-> "", found |-> FALSE, obj |-> NoConfirmation]
       ELSE IF Cardinality(found) > 1
            THEN [raised |-> "MultipleObjectsReturned", found |-> FALSE, obj |-> NoConfirmation]
            ELSE [raised |-> "", found |-> TRUE, obj |-> CHOOSE c \in found : TRUE]

\* mutant: the confirmation is read again before its address is fetched
address_of_refetch(addrs, confs, confirmation) ==
    IF confirmation \notin confs THEN [raised |-> "DoesNotExist", obj |-> NoAddress]
    ELSE [raised |-> "", obj |-> Load(addrs, confirmation.email_address)]

\* line 117, confirmation.email_address: the address row is fetched through
\* the foreign key held by the in-memory confirmation
address_of(addrs, confs, confirmation) ==
    [raised |-> "", obj |-> Load(addrs, confirmation.email_address)]

\* mutant: the address is made primary whatever make_primary says
verify_address_always_primary(addrs, usrs, confirmation, make_primary, overwrite) ==
    LET ea == [Load(addrs, confirmation.email_address) EXCEPT !.verified = TRUE]
        sp == set_as_primary(addrs, usrs, ea, overwrite)
    IN IF sp.raised # "" THEN sp
       ELSE [raised |-> "", addresses |-> save(sp.addresses, sp.self), users |-> sp.users,
             self |-> sp.self, effects |-> sp.effects \o <<Eff("save_address", sp.self.id)>>]

\* mutant: make_primary is ignored
verify_address_no_primary(addrs, usrs, confirmation, make_primary, overwrite) ==
    LET ea == [Load(addrs, confirmation.email_address) EXCEPT !.verified = TRUE]
    IN [raised |-> "", addresses |-> save(addrs, ea), users |-> usrs,
        self |-> ea, effects |-> <<Eff("save_address", ea.id)>>]

\* lines 117-121: the address of the confirmation is loaded, marked verified,
\* made primary when asked, and saved
verify_address(addrs, usrs, confirmation, make_primary, overwrite) ==
    LET ea == [Load(addrs, confirmation.email_address) EXCEPT !.verified = TRUE]
        sp == IF make_primary
              THEN set_as_primary(addrs, usrs, ea, overwrite)
              ELSE [raised |-> "", addresses |-> addrs, users |-> usrs,
                    self |-> ea, effects |-> <<>>]
    IN IF sp.raised # "" THEN sp
       ELSE [raised |-> "", addresses |-> save(sp.addresses, sp.self), users |-> sp.users,
             self |-> sp.self, effects |-> sp.effects \o <<Eff("save_address", sp.self.id)>>]

\* mutant: a confirmation is deleted once it has been used
confirmed_consume(addrs, confs, usrs, confirmation, make_primary, overwrite) ==
    LET v == verify_address(addrs, usrs, confirmation, make_primary, overwrite)
    IN IF v.raised # ""
       THEN [raised |-> v.raised, ret |-> "", ret_id |-> 0, addresses |-> v.addresses,
             confirmations |-> confs, users |-> v.users, effects |-> v.effects]
       ELSE [raised |-> "", ret |-> "address", ret_id |-> v.self.id,
             addresses |-> v.addresses, confirmations |-> confs \ {confirmation},
             users |-> v.users,
             effects |-> v.effects \o <<Eff("email_confirmed", v.self.id)>>]

\* lines 117-123: the branch of confirm_email for a key that has not expired
confirmed(addrs, confs, usrs, confirmation, make_primary, overwrite) ==
    LET v == verify_address(addrs, usrs, confirmation, make_primary, overwrite)
    IN IF v.raised # ""
       THEN [raised |-> v.raised, ret |-> "", ret_id |-> 0, addresses |-> v.addresses,
             confirmations |-> confs, users |-> v.users, effects |-> v.effects]
       ELSE [raised |-> "", ret |-> "address", ret_id |-> v.self.id,
             addresses |-> v.addresses, confirmations |-> confs, users |-> v.users,
             effects |-> v.effects \o <<Eff("email_confirmed", v.self.id)>>]

\* mutant: a key found expired is deleted on the spot
confirm_email_purge(addrs, confs, usrs, key, make_primary, t, overwrite) ==
    LET l == lookup(confs, key)
        unchanged(raised, ret) ==
            [raised |-> raised, ret |-> ret, ret_id |-> 0, addresses |-> addrs,
             confirmations |-> confs, users |-> usrs, effects |-> <<>>]
    IN IF l.raised # "" THEN unchanged(l.raised, "")
       ELSE IF ~l.found THEN unchanged("", "None")
       ELSE IF key_expired(l.obj, t)
            THEN [unchanged("", "None") EXCEPT !.confirmations = confs \ {l.obj}]
       ELSE confirmed(addrs, confs, usrs, l.obj, make_primary, overwrite)

\* EmailConfirmationManager.confirm_email as one uninterrupted call
confirm_email(addrs, confs, usrs, key, make_primary, t, overwrite) ==
    LET l == lookup(confs, key)
        unchanged(raised, ret) ==
            [raised |-> raised, ret |-> ret, ret_id |-> 0, addresses |-> addrs,
             confirmations |-> confs, users |-> usrs, effects |-> <<>>]
    IN IF l.raised # "" THEN unchanged(l.raised, "")
       ELSE IF ~l.found THEN unchanged("", "None")
       ELSE IF key_expired(l.obj, t) THEN unchanged("", "None")
       ELSE confirmed(addrs, confs, usrs, l.obj, make_primary, overwrite)

\* mutant: the loop ends after its first deletion
RECURSIVE delete_loop_stop(_, _, _)
delete_loop_stop(todo, acc, t) ==
    IF todo = {} THEN acc
    ELSE LET c == CHOOSE x \in todo : \A y \in todo : x.key <= y.key
         IN IF key_expired(c, t)
            THEN [confirmations |-> acc.confirmations \ {c},
                  effects |-> Append(acc.effects, Eff("delete_confirmation", c.key))]
            ELSE delete_loop_stop(todo \ {c}, acc, t)

\* the loop of delete_expired_confirmations over self.all(), in primary-key
\* order: todo the rows not visited yet, acc the table and the deletions so far
RECURSIVE delete_loop(_, _, _)
delete_loop(todo, acc, t) ==
    IF todo = {} THEN acc
    ELSE LET c == CHOOSE x \in todo : \A y \in todo : x.key <= y.key
         IN delete_loop(todo \ {c},
                        IF key_expired(c, t)
                        THEN [confirmations |-> acc.confirmations \ {c},
                              effects |-> Append(acc.effects, Eff("delete_confirmation", c.key))]
                        ELSE acc,
                        t)

\* EmailConfirmationManager.delete_expired_confirmations
delete_expired_confirmations(confs, t) ==
    delete_loop(confs, [confirmations |-> confs, effects |-> <<>>], t)

\* ---- initial state ------------------------------------------------------
Init ==
    /\ addresses = <<>>
    /\ confirmations = {}
    /\ users = [u \in Users |-> [email |-> NoEmail, username |-> Username(u)]]
    /\ now = 0
    /\ nextKey = 0
    /\ OVERWRITE_USERNAME = FALSE      \* the setting is absent: getattr's default
    /\ workload \in Workloads
    /\ call = NoCall
    /\ effects = <<>>
    /\ pc = [p \in Procs |-> "idle"]
    /\ local = [p \in Procs |-> NoLocal]

\* ---- Spec: whole calls --------------------------------------------------
\* the record of a call that completes now; again (kept for confirm_email
\* returning an address, set_as_primary and the sweep): the call before it, at
\* the same clock value, was the same call with the same arguments and result
Called(op, user, email, id, key, make_primary, ret, ret_id, raised) ==
    [op |-> op, user |-> user, email |-> email, id |-> id, key |-> key,
     make_primary |-> make_primary, ret |-> ret, ret_id |-> ret_id, ret_users |-> <<>>,
     raised |-> raised, mail |-> "",
     again |-> /\ op \in {"ConfirmEmail", "PromoteToPrimary", "SweepExpired"}
               /\ op = "ConfirmEmail" => ret = "address"
               /\ call.op = op /\ call.id = id /\ call.key = key
               /\ call.make_primary = make_primary /\ call.ret = ret]

\* EmailAddress.objects.add_email(user, email); mailOk: send_mail would not
\* raise. call.mail records mailOk when send_confirmation is called
AddEmail ==
    \E pair \in workload, mailOk \in BOOLEAN :
        LET user == AddressPairs[pair][1]
            email == AddressPairs[pair][2]
            r == add_email(addresses, confirmations, user, email, nextKey, now, mailOk)
        IN /\ Cardinality(DOMAIN r.addresses) <= MaxAddresses
           /\ r.confirmations # confirmations => nextKey < MaxKeys
           /\ addresses' = r.addresses
           /\ confirmations' = r.confirmations
           /\ nextKey' = IF r.confirmations # confirmations THEN nextKey + 1 ELSE nextKey
           /\ call' = [Called("AddEmail", user, email, 0, 0, FALSE, r.ret, r.ret_id, r.raised)
                          EXCEPT !.mail = IF r.addresses = addresses THEN ""
                                          ELSE IF mailOk THEN "ok" ELSE "fail"]
           /\ effects' = r.effects
           /\ UNCHANGED <<users, now, OVERWRITE_USERNAME, workload, pc, local>>

\* EmailConfirmation.objects.create_emailconfirmation(address)
CreateConfirmation ==
    \E id \in DOMAIN addresses :
        LET r == create_emailconfirmation(confirmations, Load(addresses, id), nextKey, now)
        IN /\ nextKey < MaxKeys
           /\ confirmations' = r.confirmations
           /\ nextKey' = nextKey + 1
           /\ call' = Called("CreateConfirmation", 0, NoEmail, id, 0, FALSE,
                             "confirmation", r.obj.key, "")
           /\ effects' = <<Eff("create_confirmation", r.obj.key)>>
           /\ UNCHANGED <<addresses, users, now, OVERWRITE_USERNAME, workload, pc, local>>

\* EmailConfirmation.objects.send_confirmation(address) for a stored address
SendConfirmation ==
    \E id \in DOMAIN addresses, mailOk \in BOOLEAN :
        LET r == send_confirmation(confirmations, Load(addresses, id), nextKey, now, mailOk)
        IN /\ r.confirmations # confirmations => nextKey < MaxKeys
           /\ confirmations' = r.confirmations
           /\ nextKey' = IF r.confirmations # confirmations THEN nextKey + 1 ELSE nextKey
           /\ call' = [Called("SendConfirmation", 0, NoEmail, id, 0, FALSE,
                               IF r.raised = "" THEN "confirmation" ELSE "", r.obj.key,
                               r.raised)
                          EXCEPT !.mail = IF mailOk THEN "ok" ELSE "fail"]
           /\ effects' = r.effects
           /\ UNCHANGED <<addresses, users, now, OVERWRITE_USERNAME, workload, pc, local>>

\* EmailConfirmation.objects.confirm_email(key, make_primary), for every key
\* issued so far and one key that was never issued
ConfirmEmail ==
    \E key \in 1..(nextKey + 1), make_primary \in BOOLEAN :
        LET r == confirm_email(addresses, confirmations, users, key, make_primary, now,
                               OVERWRITE_USERNAME)
        IN /\ addresses' = r.addresses
           /\ confirmations' = r.confirmations
           /\ users' = r.users
           /\ call' = Called("ConfirmEmail", 0, NoEmail, 0, key, make_primary,
                             r.ret, r.ret_id, r.raised)
           /\ effects' = r.effects
           /\ UNCHANGED <<now, nextKey, OVERWRITE_USERNAME, workload, pc, local>>

\* address.set_as_primary() on a freshly loaded instance of row id
PromoteToPrimary ==
    \E id \in DOMAIN addresses :
        LET r == set_as_primary(addresses, users, Load(addresses, id), OVERWRITE_USERNAME)
        IN /\ addresses' = r.addresses
           /\ users' = r.users
           /\ call' = Called("PromoteToPrimary", 0, NoEmail, id, 0, FALSE,
                             IF r.raised = "" THEN "True" ELSE "", 0, r.raised)
           /\ effects' = r.effects
           /\ UNCHANGED <<confirmations, now, nextKey, OVERWRITE_USERNAME, workload, pc, local>>

\* EmailAddress.objects.get_users_for(email), for the e-mails of the workload
FindVerifiedUsers ==
    \E pair \in workload :
        LET email == AddressPairs[pair][2]
        IN /\ call' = [Called("FindVerifiedUsers", 0, email, 0, 0, FALSE, "list", 0, "")
                          EXCEPT !.ret_users = get_users_for(addresses, email)]
           /\ effects' = <<>>
           /\ UNCHANGED <<addresses, confirmations, users, now, nextKey, OVERWRITE_USERNAME,
                          workload, pc, local>>

\* EmailConfirmation.objects.delete_expired_confirmations()
SweepExpired ==
    LET r == delete_expired_confirmations(confirmations, now)
    IN /\ confirmations' = r.confirmations
       /\ call' = Called("SweepExpired", 0, NoEmail, 0, 0, FALSE, "None", 0, "")
       /\ effects' = r.effects
       /\ UNCHANGED <<addresses, users, now, nextKey, OVERWRITE_USERNAME, workload, pc, local>>

\* the clock advances by one day; call and effects describe the calls made
\* at the current clock value only
Tick ==
    /\ now < MaxTime
    /\ now' = now + 1
    /\ call' = NoCall
    /\ effects' = <<>>
    /\ UNCHANGED <<addresses, confirmations, users, nextKey, OVERWRITE_USERNAME,
                   workload, pc, local>>

Next ==
    \/ AddEmail
    \/ CreateConfirmation
    \/ SendConfirmation
    \/ ConfirmEmail
    \/ PromoteToPrimary
    \/ FindVerifiedUsers
    \/ SweepExpired
    \/ Tick

Spec == Init /\ [][Next]_vars

\* ---- properties of the whole-call specification (Spec) -------------------
\* the ids of the primary rows of user u in table addrs
PrimaryIds(addrs, u) == {i \in DOMAIN addrs : addrs[i].user = u /\ addrs[i].primary}

\* the step is a call of operation op (the clock does not move in a call)
IsCall(op) == now' = now /\ call'.op = op

\* C1: in every state reached by whole calls of AddEmail, ConfirmEmail,
\* PromoteToPrimary and SweepExpired no user has two primary addresses.
C1_AtMostOnePrimary ==
    \A i \in DOMAIN addresses, j \in DOMAIN addresses :
        (addresses[i].user = addresses[j].user /\ addresses[i].primary /\ addresses[j].primary)
            => i = j

\* a promotion has just replaced the primary of a user who owns two addresses
C1_Witness ==
    /\ call.op \in {"PromoteToPrimary", "ConfirmEmail"}
    /\ call.raised = ""
    /\ \E i \in DOMAIN addresses, j \in DOMAIN addresses :
         /\ i # j
         /\ addresses[i].user = addresses[j].user
         /\ addresses[i].primary /\ ~addresses[j].primary
         /\ Len(effects) >= 2
         /\ effects[1] = Eff("save_address", j)
         /\ effects[2] = Eff("save_address", i)

\* C2: also when two promotions of the same user interleave query by query,
\* no state has two primary addresses for one user.
C2_AtMostOnePrimaryInterleaved ==
    \A u \in Users : Cardinality(PrimaryIds(addresses, u)) <= 1

\* C3: no (user, email) pair has two rows, and add_email for a pair that has
\* a row returns None, raises nothing, creates no confirmation and leaves
\* the table (so the row's verified and primary flags) as it was.
C3_UniquePairDuplicateRejected ==
    [][/\ \A i \in DOMAIN addresses', j \in DOMAIN addresses' :
             (addresses'[i].user = addresses'[j].user /\ addresses'[i].email = addresses'[j].email)
                 => i = j
       /\ (/\ IsCall("AddEmail")
           /\ \E i \in DOMAIN addresses :
                addresses[i].user = call'.user /\ addresses[i].email = call'.email)
          => /\ call'.ret = "None"
             /\ call'.raised = ""
             /\ addresses' = addresses
             /\ confirmations' = confirmations
             /\ users' = users
             /\ effects' = <<>>]_vars

\* add_email has just been refused for a pair whose row is verified and primary
C3_Witness ==
    /\ call.op = "AddEmail"
    /\ call.ret = "None"
    /\ \E i \in DOMAIN addresses :
         /\ addresses[i].user = call.user /\ addresses[i].email = call.email
         /\ addresses[i].verified /\ addresses[i].primary

\* C4: confirm_email with a key no stored confirmation has returns None,
\* raises nothing, changes no address, confirmation or user row and sends no
\* email_confirmed signal.
C4_UnknownKeyNotFound ==
    [][(IsCall("ConfirmEmail") /\ \A c \in confirmations : c.key # call'.key)
          => /\ call'.ret = "None"
             /\ call'.raised = ""
             /\ addresses' = addresses
             /\ confirmations' = confirmations
             /\ users' = users
             /\ \A n \in DOMAIN effects' : effects'[n].kind # "email_confirmed"]_vars

\* confirm_email has just returned None for a key that is not stored, while
\* other confirmations are stored and an unverified address exists
C4_Witness ==
    /\ call.op = "ConfirmEmail"
    /\ call.ret = "None"
    /\ \A c \in confirmations : c.key # call.key
    /\ confirmations # {}
    /\ \E i \in DOMAIN addresses : ~addresses[i].verified

\* C5: confirm_email with the key of a stored confirmation whose created_at
\* plus the window is at or before the clock returns None without raising - the
\* outcome for an unknown key - and changes no address, user or confirmation
\* row and sends no email_confirmed signal.
C5_ExpiredKeyNotFound ==
    [][(/\ IsCall("ConfirmEmail")
        /\ \E c \in confirmations :
             c.key = call'.key /\ c.created_at + EMAIL_CONFIRMATION_DAYS <= now)
          => /\ call'.ret = "None"
             /\ call'.raised = ""
             /\ addresses' = addresses
             /\ confirmations' = confirmations
             /\ users' = users
             /\ \A n \in DOMAIN effects' : effects'[n].kind # "email_confirmed"]_vars

\* confirm_email has just returned None for a stored confirmation whose age is
\* exactly the window; its address is still unverified
C5_Witness ==
    /\ call.op = "ConfirmEmail"
    /\ call.ret = "None"
    /\ \E c \in confirmations :
         /\ c.key = call.key
         /\ c.created_at + EMAIL_CONFIRMATION_DAYS = now
         /\ ~addresses[c.email_address].verified

\* C6: confirm_email(key, make_primary=True) with the key of a stored
\* confirmation that has not expired leaves its address verified and primary,
\* returns that address, and sends exactly one email_confirmed signal, for
\* that address, after the last save of the address.
C6_ConfirmMakesVerifiedPrimary ==
    [][\A c \in confirmations :
         (/\ IsCall("ConfirmEmail")
          /\ call'.make_primary
          /\ c.key = call'.key
          /\ ~(c.created_at + EMAIL_CONFIRMATION_DAYS <= now))
            => /\ addresses'[c.email_address].verified
               /\ addresses'[c.email_address].primary
               /\ call'.ret = "address"
               /\ call'.ret_id = c.email_address
               /\ call'.raised = ""
               /\ Len(effects') >= 2
               /\ effects'[Len(effects')] = Eff("email_confirmed", c.email_address)
               /\ effects'[Len(effects') - 1] = Eff("save_address", c.email_address)
               /\ \A n \in 1..(Len(effects') - 1) : effects'[n].kind # "email_confirmed"]_vars

\* confirm_email(key, True) has just returned an address that is now verified
\* and primary and was neither before (another address was the primary)
C6_Witness ==
    /\ call.op = "ConfirmEmail"
    /\ call.make_primary
    /\ call.ret = "address"
    /\ addresses[call.ret_id].verified
    /\ addresses[call.ret_id].primary
    /\ effects[1].kind = "save_address"
    /\ effects[1].id # call.ret_id
    /\ effects[Len(effects)] = Eff("email_confirmed", call.ret_id)

\* C7: confirm_email repeated with the same key and make_primary right after
\* it returned the address (no call and no clock tick in between) returns the
\* address again and leaves every address, user and confirmation row as the
\* first call left it.
C7_ReconfirmIdempotent ==
    [][(/\ call.op = "ConfirmEmail"
        /\ call.ret = "address"
        /\ IsCall("ConfirmEmail")
        /\ call'.key = call.key
        /\ call'.make_primary = call.make_primary)
          => /\ call'.ret = "address"
             /\ call'.ret_id = call.ret_id
             /\ call'.raised = ""
             /\ addresses' = addresses
             /\ confirmations' = confirmations
             /\ users' = users]_vars

\* the same confirm_email call has just succeeded a second time in a row, on
\* an address that is verified and primary
C7_Witness ==
    /\ call.op = "ConfirmEmail"
    /\ call.again
    /\ call.make_primary
    /\ call.ret = "address"
    /\ addresses[call.ret_id].verified
    /\ addresses[call.ret_id].primary

\* C8: set_as_primary repeated on the same address right after it returned
\* returns True again, raises nothing and leaves every address and user row
\* as the first call left it; the address is primary and is the user's only
\* primary.
C8_PromoteIdempotent ==
    [][(/\ call.op = "PromoteToPrimary"
        /\ call.raised = ""
        /\ IsCall("PromoteToPrimary")
        /\ call'.id = call.id)
          => /\ call'.ret = "True"
             /\ call'.raised = ""
             /\ addresses' = addresses
             /\ users' = users
             /\ confirmations' = confirmations
             /\ PrimaryIds(addresses', addresses'[call.id].user) = {call.id}]_vars

\* set_as_primary has just returned True a second time in a row for the same
\* address, which is primary, while the user owns another address
C8_Witness ==
    /\ call.op = "PromoteToPrimary"
    /\ call.again
    /\ call.ret = "True"
    /\ addresses[call.id].primary
    /\ \E j \in DOMAIN addresses : j # call.id /\ addresses[j].user = addresses[call.id].user
    /\ effects[1] = Eff("save_address", call.id)

\* C9: the sweep deletes exactly the confirmations whose created_at plus the
\* window is at or before the clock, leaves the others and every address and
\* user row alone, and a sweep that follows a sweep at the same clock value
\* deletes nothing.
C9_SweepDeletesExactlyExpired ==
    [][IsCall("SweepExpired")
          => /\ confirmations' =
                  {c \in confirmations : ~(c.created_at + EMAIL_CONFIRMATION_DAYS <= now)}
             /\ addresses' = addresses
             /\ users' = users
             /\ {effects'[n].id : n \in DOMAIN effects'} =
                  {c.key : c \in confirmations \ confirmations'}
             /\ call.op = "SweepExpired" => confirmations' = confirmations]_vars

\* a sweep has just deleted an expired confirmation and kept a younger one
C9_Witness ==
    /\ call.op = "SweepExpired"
    /\ effects # <<>>
    /\ \E c \in confirmations : c.created_at + EMAIL_CONFIRMATION_DAYS > now

\* a second sweep in a row at the same clock value has just run, with a
\* confirmation stored
C9_WitnessTwice ==
    /\ call.op = "SweepExpired"
    /\ call.again
    /\ confirmations # {}

\* C10: when user U has primary a and confirm_email(key of b, True) succeeds
\* for another address b of U, then b is U's only primary, a is not primary
\* and a's verified flag is what it was.
C10_ConfirmDemotesOldPrimary ==
    [][\A c \in confirmations, a \in DOMAIN addresses :
         (/\ IsCall("ConfirmEmail")
          /\ call'.make_primary
          /\ call'.ret = "address"
          /\ c.key = call'.key
          /\ a # c.email_address
          /\ addresses[a].user = addresses[c.email_address].user
          /\ addresses[a].primary)
            => /\ PrimaryIds(addresses', addresses[a].user) = {c.email_address}
               /\ ~addresses'[a].primary
               /\ addresses'[a].verified = addresses[a].verified]_vars

\* confirm_email(key of b, True) has just demoted a verified primary a
C10_Witness ==
    /\ call.op = "ConfirmEmail"
    /\ call.make_primary
    /\ call.ret = "address"
    /\ addresses[call.ret_id].primary
    /\ \E a \in DOMAIN addresses :
         /\ a # call.ret_id
         /\ addresses[a].user = addresses[call.ret_id].user
         /\ addresses[a].verified
         /\ ~addresses[a].primary
         /\ effects[1] = Eff("save_address", a)

\* C11: when an address has several stored confirmations, confirm_email
\* succeeds with each key whose own created_at plus the window is after the
\* clock, whatever newer or already used keys the address has, and the other
\* confirmations stay stored.
C11_OlderKeysStayValid ==
    [][\A c \in confirmations, d \in confirmations :
         (/\ IsCall("ConfirmEmail")
          /\ call'.key = c.key
          /\ d # c
          /\ d.email_address = c.email_address
          /\ c.created_at + EMAIL_CONFIRMATION_DAYS > now)
            => /\ call'.ret = "address"
               /\ call'.ret_id = c.email_address
               /\ call'.raised = ""
               /\ addresses'[c.email_address].verified
               /\ {c, d} \subseteq confirmations']_vars

\* confirm_email has just succeeded with a key of an address for which a key
\* issued later is stored too
C11_Witness ==
    /\ call.op = "ConfirmEmail"
    /\ call.ret = "address"
    /\ \E c \in confirmations, d \in confirmations :
         /\ c.key = call.key
         /\ d.email_address = c.email_address
         /\ d.key > c.key
         /\ d.created_at >= c.created_at

\* C12: add_email for a pair (user, email) that is not stored, with a mail
\* server that accepts the mail, creates exactly
\* one address row (verified false, primary false), leaves every other row as
\* it was, has send_confirmation store exactly one new confirmation for the
\* new row, and returns the new address.
C12_AddEmailCreatesAddressAndConfirmation ==
    [][(/\ IsCall("AddEmail")
        /\ ~UniqueViolation(addresses, call'.user, call'.email)
        /\ call'.mail = "ok")
          => \E i \in DOMAIN addresses' \ DOMAIN addresses :
               /\ DOMAIN addresses' = DOMAIN addresses \cup {i}
               /\ \A j \in DOMAIN addresses : addresses'[j] = addresses[j]
               /\ addresses'[i] = [user |-> call'.user, email |-> call'.email,
                                    verified |-> FALSE, primary |-> FALSE]
               /\ confirmations \subseteq confirmations'
               /\ Cardinality(confirmations' \ confirmations) = 1
               /\ \A c \in confirmations' \ confirmations : c.email_address = i
               /\ call'.ret = "address"
               /\ call'.ret_id = i
               /\ call'.raised = ""]_vars

\* C13: get_users_for(email) returns exactly the users who own a row with
\* that e-mail and verified true, each once, and writes nothing.
C13_FindVerifiedUsersExact ==
    [][IsCall("FindVerifiedUsers")
          => /\ {call'.ret_users[n] : n \in DOMAIN call'.ret_users} =
                  {u \in Users : \E i \in DOMAIN addresses :
                                    /\ addresses[i].user = u
                                    /\ addresses[i].email = call'.email
                                    /\ addresses[i].verified}
             /\ \A m \in DOMAIN call'.ret_users, n \in DOMAIN call'.ret_users :
                  call'.ret_users[m] = call'.ret_users[n] => m = n
             /\ addresses' = addresses
             /\ confirmations' = confirmations
             /\ users' = users]_vars

\* get_users_for has just returned one user and left out another user, who
\* owns an unverified row with the same e-mail
C13_Witness ==
    /\ call.op = "FindVerifiedUsers"
    /\ Len(call.ret_users) = 1
    /\ \E i \in DOMAIN addresses :
         /\ addresses[i].email = call.email
         /\ ~addresses[i].verified
         /\ addresses[i].user # call.ret_users[1]

\* get_users_for has just returned two users
C13_WitnessAll ==
    /\ call.op = "FindVerifiedUsers"
    /\ Len(call.ret_users) = 2

\* C14: confirm_email, successful or not, and set_as_primary leave the stored
\* confirmations as they are; a confirmation is added only by
\* create_emailconfirmation (directly or through send_confirmation and
\* add_email) and removed only by delete_expired_confirmations.
C14_ConfirmationsOnlyGrowAndSweep ==
    [][/\ (IsCall("ConfirmEmail") \/ IsCall("PromoteToPrimary"))
            => confirmations' = confirmations
       /\ ~(confirmations' \subseteq confirmations)
            => \/ IsCall("CreateConfirmation")
               \/ IsCall("SendConfirmation")
               \/ IsCall("AddEmail")
       /\ ~(confirmations \subseteq confirmations')
            => IsCall("SweepExpired")]_vars

\* confirm_email has just failed on a stored key that has expired, and the
\* confirmation is still stored
C14_Witness ==
    /\ call.op = "ConfirmEmail"
    /\ call.ret = "None"
    /\ \E c \in confirmations :
         /\ c.key = call.key
         /\ c.created_at + EMAIL_CONFIRMATION_DAYS <= now

\* confirm_email has just succeeded, and the confirmation is still stored
C14_WitnessUsed ==
    /\ call.op = "ConfirmEmail"
    /\ call.ret = "address"
    /\ \E c \in confirmations : c.key = call.key

\* a call in which the code calls send_confirmation: send_confirmation itself,
\* or add_email for a pair that is not stored
CallsSendConfirmation ==
    \/ IsCall("SendConfirmation")
    \/ IsCall("AddEmail") /\ ~UniqueViolation(addresses, call'.user, call'.email)

\* what send_confirmation did in the call that has just returned
SendEffects == IF call'.op = "AddEmail" THEN Tail(effects') ELSE effects'

\* C15: send_confirmation, with a mail server that accepts the mail, stores
\* the confirmation, then dispatches the mail with its key, then emits
\* email_confirmation_sent for it, in that order; a mail is dispatched only
\* for a key that is stored, and the signal is emitted only after the mail.
C15_SendConfirmationOrder ==
    [][/\ (CallsSendConfirmation /\ call'.mail = "ok")
            => \E c \in confirmations' \ confirmations :
                 SendEffects = <<Eff("create_confirmation", c.key), Eff("send_mail", c.key),
                                 Eff("email_confirmation_sent", c.key)>>
       /\ \A n \in DOMAIN effects' :
            /\ effects'[n].kind = "send_mail"
                 => /\ \E c \in confirmations' : c.key = effects'[n].id
                    /\ \E m \in 1..(n - 1) :
                         effects'[m] = Eff("create_confirmation", effects'[n].id)
            /\ effects'[n].kind = "email_confirmation_sent"
                 => \E m \in 1..(n - 1) : effects'[m] = Eff("send_mail", effects'[n].id)]_vars

\* C16: when the mail server refuses the mail during send_confirmation, the
\* call raises (it neither returns None nor returns normally), and the
\* address and the confirmation created before the dispatch stay stored.
C16_MailFailureSurfacedNothingRolledBack ==
    [][(CallsSendConfirmation /\ call'.mail = "fail")
          => /\ call'.raised # ""
             /\ call'.ret = ""
             /\ \E i \in DOMAIN addresses' :
                  /\ call'.op = "SendConfirmation" => i = call'.id
                  /\ call'.op = "AddEmail"
                       => addresses'[i] = [user |-> call'.user, email |-> call'.email,
                                            verified |-> FALSE, primary |-> FALSE]
                  /\ \E c \in confirmations' \ confirmations : c.email_address = i
             /\ \A n \in DOMAIN effects' : effects'[n].kind # "email_confirmation_sent"]_vars

\* C17: a successful confirm_email(key, make_primary=False) sets verified on
\* the address of the key and changes nothing else: the primary flag of every
\* address and every profile row (e-mail and username) are what they were.
C17_ConfirmWithoutPrimaryKeepsPrimary ==
    [][\A c \in confirmations :
         (/\ IsCall("ConfirmEmail")
          /\ ~call'.make_primary
          /\ call'.ret = "address"
          /\ c.key = call'.key)
            => /\ addresses' = [addresses EXCEPT ![c.email_address].verified = TRUE]
               /\ \A j \in DOMAIN addresses : addresses'[j].primary = addresses[j].primary
               /\ users' = users]_vars

\* confirm_email(key, False) has just verified an address that is not
\* primary, while another address of the same user is primary
C17_Witness ==
    /\ call.op = "ConfirmEmail"
    /\ ~call.make_primary
    /\ ~call.again
    /\ call.ret = "address"
    /\ addresses[call.ret_id].verified
    /\ ~addresses[call.ret_id].primary
    /\ effects = <<Eff("save_address", call.ret_id), Eff("email_confirmed", call.ret_id)>>
    /\ \E j \in DOMAIN addresses :
         /\ j # call.ret_id
         /\ addresses[j].user = addresses[call.ret_id].user
         /\ addresses[j].primary
         /\ users[addresses[j].user].email = addresses[j].email

\* ---- SpecSettings: whole calls under either value of the setting --------
\* the initial state of a deployment with EMAIL_CONFIRMATION_OVERWRITE_USERNAME
\* set to either value, one user adding two addresses
InitSettings ==
    /\ addresses = <<>>
    /\ confirmations = {}
    /\ users = [u \in Users |-> [email |-> NoEmail, username |-> Username(u)]]
    /\ now = 0
    /\ nextKey = 0
    /\ OVERWRITE_USERNAME \in BOOLEAN
    /\ workload = {1, 2}
    /\ call = NoCall
    /\ effects = <<>>
    /\ pc = [p \in Procs |-> "idle"]
    /\ local = [p \in Procs |-> NoLocal]

SpecSettings == InitSettings /\ [][Next]_vars

\* C18: after every sequence of whole calls each user who has a primary
\* address has that address's e-mail as profile e-mail; a call that makes an
\* address primary (set_as_primary, or confirm_email with make_primary) sets
\* the owner's username to the e-mail when the setting is on and leaves it
\* alone when the setting is off.
C18_PrimaryMirroredOnProfile ==
    [][/\ \A u \in Users : \A i \in PrimaryIds(addresses', u) :
            users'[u].email = addresses'[i].email
       /\ \A i \in DOMAIN addresses :
            (\/ IsCall("PromoteToPrimary") /\ call'.id = i /\ call'.ret = "True"
             \/ /\ IsCall("ConfirmEmail") /\ call'.make_primary
                /\ call'.ret = "address" /\ call'.ret_id = i)
              => /\ users'[addresses[i].user].username =
                      IF OVERWRITE_USERNAME THEN addresses[i].email
                      ELSE users[addresses[i].user].username
                 /\ \A u \in Users \ {addresses[i].user} : users'[u] = users[u]]_vars

\* with the setting on, set_as_primary has just made a second address of a
\* user primary, and the username is that address's e-mail
C18_Witness ==
    /\ OVERWRITE_USERNAME
    /\ call.op = "PromoteToPrimary"
    /\ call.ret = "True"
    /\ addresses[call.id].primary
    /\ users[addresses[call.id].user].username = addresses[call.id].email
    /\ users[addresses[call.id].user].email = addresses[call.id].email
    /\ effects[1].kind = "save_address" /\ effects[1].id # call.id

\* with the setting off, a user has a primary address and the initial username
C18_WitnessDefault ==
    /\ ~OVERWRITE_USERNAME
    /\ call.op = "PromoteToPrimary"
    /\ PrimaryIds(addresses, 1) # {}
    /\ users[1].username = Username(1)

\* ---- SpecConc: one ORM query per step -----------------------------------
\* a state the whole-call operations reach: user 1 owns rows 1 and 2, each
\* with one confirmation issued at day 0; v1, v2 the verified flags, prim the
\* primary row (0: none)
ConcAddresses(v1, v2, prim) ==
    [i \in {1, 2} |-> [user |-> 1, email |-> AddressPairs[i][2],
                       verified |-> IF i = 1 THEN v1 ELSE v2, primary |-> (prim = i)]]

InitConc ==
    /\ OVERWRITE_USERNAME = FALSE
    /\ workload = {1, 2}
    /\ \E v1 \in BOOLEAN, v2 \in BOOLEAN, prim \in 0..2 :
         /\ addresses = ConcAddresses(v1, v2, prim)
         /\ users = [u \in Users |->
                       [email |-> IF u = 1 /\ prim # 0 THEN AddressPairs[prim][2] ELSE NoEmail,
                        username |-> Username(u)]]
    /\ confirmations = {[key |-> 1, email_address |-> 1, created_at |-> 0],
                        [key |-> 2, email_address |-> 2, created_at |-> 0]}
    /\ now = 0
    /\ nextKey = 2
    /\ call = NoCall
    /\ effects = <<>>
    /\ pc = [p \in Procs |-> "idle"]
    /\ local = [p \in Procs |-> NoLocal]

ConcFrame == <<confirmations, nextKey, OVERWRITE_USERNAME, workload, call, effects>>

\* the call of thread p ends, by return or by an uncaught exception: its
\* in-memory objects are dropped, the operation and its outcome stay on record
Return(p, frame, ret, ret_id, raised) ==
    /\ pc' = [pc EXCEPT ![p] = "idle"]
    /\ local' = [local EXCEPT ![p] =
                   [NoLocal EXCEPT !.op = frame.op, !.ret = ret, !.ret_id = ret_id,
                                   !.raised = raised]]

Goto(p, frame, label) ==
    /\ pc' = [pc EXCEPT ![p] = label]
    /\ local' = [local EXCEPT ![p] = frame]

\* a view loads row id and calls set_as_primary() on the instance
StartPromote(p) ==
    /\ pc[p] = "idle"
    /\ \E id \in DOMAIN addresses :
         Goto(p, [NoLocal EXCEPT !.op = "PromoteToPrimary", !.id = id,
                                 !.self = Load(addresses, id)], "sap_user")
    /\ UNCHANGED <<addresses, users, now, ConcFrame>>

\* line 60, self.user: the foreign key is fetched on first access
SapUser(p) ==
    /\ pc[p] = "sap_user"
    /\ Goto(p, [local[p] EXCEPT !.user = users[local[p].self.user]], "sap_get")
    /\ UNCHANGED <<addresses, users, now, ConcFrame>>

\* line 60, get_primary; line 61
SapGet(p) ==
    /\ pc[p] = "sap_get"
    /\ LET r == get_primary(addresses, local[p].self.user)
       IN IF r.raised # "" THEN Return(p, local[p], "", 0, r.raised)
          ELSE Goto(p, [local[p] EXCEPT !.old = r.obj],
                    IF r.obj.id # 0 THEN "sap_save_old" ELSE "sap_save_self")
    /\ UNCHANGED <<addresses, users, now, ConcFrame>>

\* lines 62-63
SapSaveOld(p) ==
    /\ pc[p] = "sap_save_old"
    /\ addresses' = demote_old(addresses, local[p].old)
    /\ Goto(p, [local[p] EXCEPT !.old.primary = FALSE], "sap_save_self")
    /\ UNCHANGED <<users, now, ConcFrame>>

\* lines 64-65
SapSaveSelf(p) ==
    /\ pc[p] = "sap_save_self"
    /\ LET self == mark_primary(local[p].self)
       IN /\ addresses' = save(addresses, self)
          /\ Goto(p, [local[p] EXCEPT !.self = self], "sap_save_user")
    /\ UNCHANGED <<users, now, ConcFrame>>

\* lines 66-70; back in confirm_email when it made the call
SapSaveUser(p) ==
    /\ pc[p] = "sap_save_user"
    /\ LET row == user_row(local[p].user, local[p].self, OVERWRITE_USERNAME)
           frame == [local[p] EXCEPT !.user = row]
       IN /\ users' = [users EXCEPT ![local[p].self.user] = row]
          /\ IF local[p].op = "ConfirmEmail" THEN Goto(p, frame, "ce_save")
             ELSE Return(p, frame, "True", 0, "")
    /\ UNCHANGED <<addresses, now, ConcFrame>>

\* confirm_email is called; lines 112-115
StartConfirm(p) ==
    /\ pc[p] = "idle"
    /\ \E key \in 1..(nextKey + 1), make_primary \in BOOLEAN :
         LET frame == [NoLocal EXCEPT !.op = "ConfirmEmail", !.key = key,
                                      !.make_primary = make_primary]
             l == lookup(confirmations, key)
         IN IF l.raised # "" THEN Return(p, frame, "", 0, l.raised)
            ELSE IF ~l.found THEN Return(p, frame, "None", 0, "")
            ELSE Goto(p, [frame EXCEPT !.confirmation = l.obj], "ce_expired")
    /\ UNCHANGED <<addresses, users, now, ConcFrame>>

\* line 116
CeExpired(p) ==
    /\ pc[p] = "ce_expired"
    /\ IF key_expired(local[p].confirmation, now) THEN Return(p, local[p], "None", 0, "")
       ELSE Goto(p, local[p], "ce_load")
    /\ UNCHANGED <<addresses, users, now, ConcFrame>>

\* lines 117-119: the address is fetched through the foreign key
CeLoad(p) ==
    /\ pc[p] = "ce_load"
    /\ LET r == address_of(addresses, confirmations, local[p].confirmation)
           ea == [r.obj EXCEPT !.verified = TRUE]
       IN IF r.raised # "" THEN Return(p, local[p], "", 0, r.raised)
          ELSE Goto(p, [local[p] EXCEPT !.self = ea],
                    IF local[p].make_primary THEN "sap_user" ELSE "ce_save")
    /\ UNCHANGED <<addresses, users, now, ConcFrame>>

\* lines 121-123
CeSave(p) ==
    /\ pc[p] = "ce_save"
    /\ addresses' = save(addresses, local[p].self)
    /\ Return(p, local[p], "address", local[p].self.id, "")
    /\ UNCHANGED <<users, now, ConcFrame>>

TickConc ==
    /\ now < MaxTime
    /\ now' = now + 1
    /\ UNCHANGED <<addresses, users, pc, local, ConcFrame>>

NextConc ==
    \/ \E p \in Procs : StartPromote(p)
    \/ \E p \in Procs : SapUser(p)
    \/ \E p \in Procs : SapGet(p)
    \/ \E p \in Procs : SapSaveOld(p)
    \/ \E p \in Procs : SapSaveSelf(p)
    \/ \E p \in Procs : SapSaveUser(p)
    \/ \E p \in Procs : StartConfirm(p)
    \/ \E p \in Procs : CeExpired(p)
    \/ \E p \in Procs : CeLoad(p)
    \/ \E p \in Procs : CeSave(p)
    \/ TickConc

SpecConc == InitConc /\ [][NextConc]_vars

\* ---- SpecSweep: confirm_email in one thread, the sweep in another --------
\* the rows of InitConc at day t, the second confirmation issued at day t
InitSweep ==
    /\ OVERWRITE_USERNAME = FALSE
    /\ workload = {1, 2}
    /\ \E v1 \in BOOLEAN, v2 \in BOOLEAN, prim \in 0..2 :
         /\ addresses = ConcAddresses(v1, v2, prim)
         /\ users = [u \in Users |->
                       [email |-> IF u = 1 /\ prim # 0 THEN AddressPairs[prim][2] ELSE NoEmail,
                        username |-> Username(u)]]
    /\ \E t \in 0..1 :
         /\ now = t
         /\ confirmations = {[key |-> 1, email_address |-> 1, created_at |-> 0],
                             [key |-> 2, email_address |-> 2, created_at |-> t]}
    /\ nextKey = 2
    /\ call = NoCall
    /\ effects = <<>>
    /\ pc = [p \in Procs |-> "idle"]
    /\ local = [p \in Procs |-> NoLocal]

\* delete_expired_confirmations is called; line 162: self.all() is evaluated
\* when the loop starts
StartSweep(p) ==
    /\ pc[p] = "idle"
    /\ Goto(p, [NoLocal EXCEPT !.op = "SweepExpired", !.todo = confirmations], "sw_next")
    /\ UNCHANGED <<addresses, users, now, ConcFrame>>

\* lines 162-163: the next row of the result, in primary-key order, and its
\* key_expired(); the end of the loop
SwCheck(p) ==
    /\ pc[p] = "sw_next"
    /\ IF local[p].todo = {} THEN Return(p, local[p], "None", 0, "")
       ELSE LET c == CHOOSE x \in local[p].todo : \A y \in local[p].todo : x.key <= y.key
                frame == [local[p] EXCEPT !.todo = local[p].todo \ {c}]
            IN IF key_expired(c, now)
               THEN Goto(p, [frame EXCEPT !.confirmation = c], "sw_delete")
               ELSE Goto(p, frame, "sw_next")
    /\ UNCHANGED <<addresses, users, now, ConcFrame>>

\* line 164: DELETE of the row, which may be gone already
SwDelete(p) ==
    /\ pc[p] = "sw_delete"
    /\ confirmations' = confirmations \ {local[p].confirmation}
    /\ Goto(p, [local[p] EXCEPT !.confirmation = NoConfirmation], "sw_next")
    /\ UNCHANGED <<addresses, users, now, nextKey, OVERWRITE_USERNAME, workload, call,
                   effects>>

\* thread p1 calls confirm_email, thread p2 the sweep, and the clock advances
NextSweep ==
    \/ StartConfirm("p1")
    \/ CeExpired("p1")
    \/ CeLoad("p1")
    \/ SapUser("p1")
    \/ SapGet("p1")
    \/ SapSaveOld("p1")
    \/ SapSaveSelf("p1")
    \/ SapSaveUser("p1")
    \/ CeSave("p1")
    \/ StartSweep("p2")
    \/ SwCheck("p2")
    \/ SwDelete("p2")
    \/ TickConc

SpecSweep == InitSweep /\ [][NextSweep]_vars


\* C20: under every interleaving of confirm_email and set_as_primary, one row
\* read or whole-row write per step, an address that is verified stays
\* verified.
C20_VerifiedMonotonicInterleaved ==
    [][\A i \in DOMAIN addresses : addresses[i].verified => addresses'[i].verified]_vars

\* C19: the sweep running concurrently with confirm_email while the clock
\* advances: neither call raises; confirm_email returns None when its
\* key_expired() test found the key expired, having written nothing, and
\* otherwise goes on and returns the address, verified; the sweep deletes only
\* a confirmation whose key_expired() it found true; and an address row is
\* written only by a confirm_email that is past that test.
C19_SweepConcurrentWithConfirm ==
    [][/\ \A p \in Procs : local'[p].raised = ""
       /\ (pc["p1"] = "ce_expired" /\ pc'["p1"] # "ce_expired")
            => IF local["p1"].confirmation.created_at + EMAIL_CONFIRMATION_DAYS <= now
               THEN /\ pc'["p1"] = "idle"
                    /\ local'["p1"].ret = "None"
                    /\ addresses' = addresses
               ELSE pc'["p1"] = "ce_load"
       /\ (pc["p1"] # "idle" /\ pc'["p1"] = "idle")
            => \/ /\ pc["p1"] = "ce_save"
                  /\ local'["p1"].ret = "address"
                  /\ local'["p1"].ret_id = local["p1"].confirmation.email_address
                  /\ addresses'[local'["p1"].ret_id].verified
               \/ /\ pc["p1"] = "ce_expired"
                  /\ local'["p1"].ret = "None"
       /\ addresses' # addresses
            => pc["p1"] \in {"sap_save_old", "sap_save_self", "ce_save"}
       /\ confirmations' # confirmations
            => /\ pc["p2"] = "sw_delete"
               /\ confirmations' = confirmations \ {local["p2"].confirmation}
               /\ local["p2"].confirmation.created_at + EMAIL_CONFIRMATION_DAYS <= now
       /\ (pc["p2"] = "sw_next" /\ pc'["p2"] = "sw_delete")
            => /\ local'["p2"].confirmation \in local["p2"].todo
               /\ local'["p2"].confirmation.created_at + EMAIL_CONFIRMATION_DAYS <= now]_vars

\* confirm_email found its key unexpired and is about to save the address as
\* verified, and the sweep, still running, has deleted that confirmation
C19_Witness ==
    /\ pc["p1"] = "ce_save"
    /\ local["p1"].confirmation \notin confirmations
    /\ ~addresses[local["p1"].self.id].verified
    /\ local["p2"].op = "SweepExpired"
    /\ pc["p2"] = "sw_next"

====
